---- MODULE Spec2Model ----
(***************************************************************************)
(* A state-machine model of PWGMM/Rivet/doc/analyses/ALICE_YYYY_I1234567.py *)
(* : the entry point (argument parsing with the replaced ap.exit, the      *)
(* try/except around plotit, the final print) and plotit itself (imports,  *)
(* readYODA, the prefix loop, the plot, the optional savefig).             *)
(*                                                                         *)
(* Numbers: effNumEntries is kept in tenths (the threshold .1 is 1 tenth), *)
(* an event count (Counter.val) in halves, so that int() has something to  *)
(* truncate.  A file name is the sequence of the pieces between its dots   *)
(* ("run.yoda" is <<"run","yoda">>, ".yoda" is <<"","yoda">>).             *)
(***************************************************************************)
EXTENDS Integers, Sequences, FiniteSets, TLC

VARIABLES
  argv,      \* the command line of the run (the program's input)
  pc,        \* position in the script
  args,      \* the namespace parse_args returned, None before
  aos,       \* plotit: what readYODA returned
  histo,     \* plotit: local histo
  nev,       \* plotit: local nev
  xsec,      \* plotit: local xsec
  prefix,    \* plotit: the loop variable
  it,        \* plotit: how many prefixes the for loop has handed out
  ax,        \* the axes: what errorbar drew, the labels, the title, shown
  saved,     \* the path savefig wrote, None if none
  exc,       \* the exception raised, None if none
  stdout,    \* what print wrote, in order
  called,    \* how often plotit was entered
  reads      \* how often readYODA was called

vars == <<argv, pc, args, aos, histo, nev, xsec, prefix, it, ax, saved, exc,
          stdout, called, reads>>

----------------------------------------------------------------------------
(* Bounds of the model *)

\* effNumEntries ranges over 0 .. MaxEff tenths
MaxEff == 2

(* Program constants *)

\* histo.effNumEntries() > .1, in tenths
EffThreshold == 1

None == [type |-> "NoneType"]

\* for prefix in ["", "/RAW", "/REF"]; raw and reference are plotit's
\* parameters, which the list does not read
PrefixListRawFirst(raw, reference) ==
  IF raw THEN <<"/RAW", "", "/REF">>
  ELSE IF reference THEN <<"/REF", "", "/RAW">>
  ELSE <<"", "/RAW", "/REF">>

PrefixList(raw, reference) == <<"", "/RAW", "/REF">>

Prefixes == {"", "/RAW", "/REF"}

HistoKey(p) == p \o "/ALICE_YYYY_I1234567/d01-x01-y01"
EvtCountKey(p) == p \o "/_EVTCOUNT"
XSecKey(p) == p \o "/_XSEC"

Keys == UNION {{HistoKey(p), EvtCountKey(p), XSecKey(p)} : p \in Prefixes}

\* The event counts (Counter.val, in halves) a file may hold under a prefix:
\* 2.5 or -1.5 (negative weights) under "", 3.5 under /RAW, 2 under /REF
NevVals(p) == IF p = "" THEN {5, -3} ELSE IF p = "/RAW" THEN {7} ELSE {4}

Histos(p) == {[type |-> "Histo1D", path |-> HistoKey(p), eff |-> e] : e \in 0..MaxEff}
Counters(p) == {[type |-> "Counter", path |-> EvtCountKey(p), val |-> v] : v \in NevVals(p)}
XSecs(p) == {[type |-> "Scatter1D", path |-> XSecKey(p)]}

\* What a key of the file may hold: an object of the key's kind, or nothing
ObjectsAt(k) ==
  UNION {(IF k = HistoKey(p) THEN Histos(p) ELSE {})
         \cup (IF k = EvtCountKey(p) THEN Counters(p) ELSE {})
         \cup (IF k = XSecKey(p) THEN XSecs(p) ELSE {}) : p \in Prefixes}
  \cup {None}

\* readYODA's results for a readable file: dict.get(key, None) for every key
FileContents ==
  {[k \in Keys |-> IF k = HistoKey("") THEN t[1] ELSE IF k = EvtCountKey("") THEN t[2]
                   ELSE IF k = XSecKey("") THEN t[3] ELSE IF k = HistoKey("/RAW") THEN t[4]
                   ELSE IF k = EvtCountKey("/RAW") THEN t[5]
                   ELSE IF k = XSecKey("/RAW") THEN t[6]
                   ELSE IF k = HistoKey("/REF") THEN t[7]
                   ELSE IF k = EvtCountKey("/REF") THEN t[8] ELSE t[9]] :
     t \in ObjectsAt(HistoKey("")) \X ObjectsAt(EvtCountKey("")) \X ObjectsAt(XSecKey(""))
        \X ObjectsAt(HistoKey("/RAW")) \X ObjectsAt(EvtCountKey("/RAW"))
        \X ObjectsAt(XSecKey("/RAW")) \X ObjectsAt(HistoKey("/REF"))
        \X ObjectsAt(EvtCountKey("/REF")) \X ObjectsAt(XSecKey("/REF"))}

\* aos.get(key, None)
Get(a, k) == a[k]

\* the condition of the if in the loop
SelectionTestNoEff(h, n, x) == h # None /\ n # None /\ x # None

SelectionTest(h, n, x) ==
  /\ h # None
  /\ h.eff > EffThreshold
  /\ n # None
  /\ x # None

\* int(): truncation toward zero of a value given in halves
PyIntFloor(v) == v \div 2

PyInt(v) == IF v >= 0 THEN v \div 2 ELSE -((-v) \div 2)

\* the f-string of set_title
TitleAlwaysPrefix(n, p) ==
  [type |-> "str", text |-> ToString(PyInt(n.val)) \o " events " \o "(" \o p \o ")"]

Title(n, p) ==
  [type |-> "str",
   text |-> ToString(PyInt(n.val)) \o " events " \o
            (IF Len(p) > 0 THEN "(" \o p \o ")" ELSE "")]

\* PurePath.suffix of a name: the last dot counts when something precedes
\* it and something follows it
HasSuffix(name) ==
  /\ Len(name) >= 2
  /\ (Len(name) > 2 \/ name[1] # "")
  /\ name[Len(name)] # ""

Stem(name) == IF HasSuffix(name) THEN SubSeq(name, 1, Len(name) - 1) ELSE name

Suffix(name) == IF HasSuffix(name) THEN <<name[Len(name)]>> ELSE <<>>

\* Path(infile.name).with_suffix('.png')
WithSuffixAppend(path) == [path EXCEPT !.name = @ \o <<"png">>]

WithSuffix(path) == [path EXCEPT !.name = Stem(@) \o <<"png">>]

\* the file names of the runs
DefaultInput == [type |-> "file", parent |-> "", name |-> <<"AO2D_LHC23d1f_520259_001", "yoda">>]

Inputs ==
  {[type |-> "file", parent |-> "data", name |-> <<"run", "1", "yoda">>],
   [type |-> "file", parent |-> "", name |-> <<"run">>],
   [type |-> "file", parent |-> "", name |-> <<"", "yoda">>]}

\* what parse_args can end in: a namespace, or a call of ap.exit
Faults == {"none", "help", "unreadable"}

\* The command lines: --raw and --reference are varied on the default input
Argvs ==
  {a \in [input : Inputs \cup {None}, raw : BOOLEAN, reference : BOOLEAN,
          save : BOOLEAN, fault : Faults] :
     a.input = None \/ (~a.raw /\ ~a.reference)}

\* def handle_exit(status=0,message=''): raise RuntimeError(message)
HandleExitSystemExit(status, message) ==
  [type |-> "SystemExit", msg |-> message, status |-> status]

handle_exit(status, message) == [type |-> "RuntimeError", msg |-> message]

NoAOSValueError(infile) == [type |-> "ValueError", msg |-> <<"No AOS read from ", infile>>]

NoAOSError(infile) == [type |-> "RuntimeError", msg |-> <<"No AOS read from ", infile>>]

NotFoundError(infile) == [type |-> "RuntimeError", msg |-> <<"Histogram not found in ", infile>>]

\* nev.val() with nev None
NoneValError == [type |-> "AttributeError", msg |-> <<"'NoneType' object has no attribute 'val'">>]

ImportErrorMsg == <<"No module named 'yoda'">>

FinalMsg == <<"Type Ctrl-D or write exit() to end">>

NoAxes == [plot |-> None, xlabel |-> None, ylabel |-> None, title |-> None, shown |-> FALSE]

----------------------------------------------------------------------------
Init ==
  /\ argv \in Argvs
  /\ pc = "parse"
  /\ args = None
  /\ aos = None
  /\ histo = None
  /\ nev = None
  /\ xsec = None
  /\ prefix = ""
  /\ it = 0
  /\ ax = NoAxes
  /\ saved = None
  /\ exc = None
  /\ stdout = <<>>
  /\ called = 0
  /\ reads = 0

\* args = ap.parse_args(): a namespace, or ap.exit (handle_exit) on --help
\* and on an error
ParseArgs ==
  /\ pc = "parse"
  /\ \/ /\ argv.fault = "none"
        /\ args' = [type |-> "Namespace",
                    input |-> IF argv.input = None THEN DefaultInput ELSE argv.input,
                    raw |-> argv.raw, reference |-> argv.reference, save |-> argv.save]
        /\ pc' = "call"
        /\ exc' = exc
     \/ /\ argv.fault = "help"
        /\ exc' = handle_exit(0, <<>>)
        /\ pc' = "except"
        /\ args' = args
     \/ /\ argv.fault = "unreadable"
        /\ exc' = handle_exit(2, <<"error: argument input: can't open">>)
        /\ pc' = "except"
        /\ args' = args
  /\ UNCHANGED <<argv, aos, histo, nev, xsec, prefix, it, ax, saved, stdout, called, reads>>

\* plotit(args.input, ...): the imports of lines 5-12
Import ==
  /\ pc = "call"
  /\ called' = called + 1
  /\ \/ /\ pc' = "read"
        /\ stdout' = stdout
     \/ /\ stdout' = Append(stdout, ImportErrorMsg)
        /\ pc' = "final"
  /\ UNCHANGED <<argv, args, aos, histo, nev, xsec, prefix, it, ax, saved, exc, reads>>

\* aos = readYODA(infile); if aos is None: raise; histo = nev = xsec = None
ReadYODA ==
  /\ pc = "read"
  /\ reads' = reads + 1
  /\ \E a \in FileContents \cup {None} :
       /\ aos' = a
       /\ IF a = None
          THEN /\ exc' = NoAOSError(args.input)
               /\ pc' = "except"
          ELSE /\ exc' = exc
               /\ pc' = "loop"
  /\ histo' = None
  /\ nev' = None
  /\ xsec' = None
  /\ prefix' = ""
  /\ UNCHANGED <<argv, args, it, ax, saved, stdout, called>>

\* one pass of the for loop: the three gets, the test, the break
LoopPass ==
  /\ pc = "loop"
  /\ it < Len(PrefixList(args.raw, args.reference))
  /\ LET p == PrefixList(args.raw, args.reference)[it + 1]
         h == Get(aos, HistoKey(p))
         n == Get(aos, EvtCountKey(p))
         x == Get(aos, XSecKey(p))
     IN /\ prefix' = p
        /\ histo' = h
        /\ nev' = n
        /\ xsec' = x
        /\ it' = it + 1
        /\ pc' = IF SelectionTest(h, n, x) THEN "found" ELSE "loop"
  /\ UNCHANGED <<argv, args, aos, ax, saved, exc, stdout, called, reads>>

\* the list is exhausted: the loop ends without a break
LoopEnd ==
  /\ pc = "loop"
  /\ it = Len(PrefixList(args.raw, args.reference))
  /\ pc' = "found"
  /\ UNCHANGED <<argv, args, aos, histo, nev, xsec, prefix, it, ax, saved, exc, stdout,
                 called, reads>>

\* if histo is None: raise RuntimeError
CheckHisto ==
  /\ pc = "found"
  /\ IF histo = None
     THEN /\ exc' = NotFoundError(args.input)
          /\ pc' = "except"
     ELSE /\ exc' = exc
          /\ pc' = "errorbar"
  /\ UNCHANGED <<argv, args, aos, histo, nev, xsec, prefix, it, ax, saved, stdout, called,
                 reads>>

\* ax.errorbar(histo...), set_xlabel, set_ylabel
Errorbar ==
  /\ pc = "errorbar"
  /\ ax' = [ax EXCEPT !.plot = histo, !.xlabel = [type |-> "str", text |-> "$\\eta$"],
                      !.ylabel = [type |-> "str", text |-> "dNch/deta"]]
  /\ pc' = "title"
  /\ UNCHANGED <<argv, args, aos, histo, nev, xsec, prefix, it, saved, exc, stdout, called,
                 reads>>

\* ax.set_title(f'{int(nev.val())} events ...'): nev.val() raises on None
SetTitle ==
  /\ pc = "title"
  /\ IF nev = None
     THEN /\ exc' = NoneValError
          /\ pc' = "except"
          /\ ax' = ax
     ELSE /\ ax' = [ax EXCEPT !.title = Title(nev, prefix)]
          /\ pc' = "show"
          /\ exc' = exc
  /\ UNCHANGED <<argv, args, aos, histo, nev, xsec, prefix, it, saved, stdout, called, reads>>

\* ax.figure.show(); ax.figure.tight_layout()
Show ==
  /\ pc = "show"
  /\ ax' = [ax EXCEPT !.shown = TRUE]
  /\ pc' = "save"
  /\ UNCHANGED <<argv, args, aos, histo, nev, xsec, prefix, it, saved, exc, stdout, called,
                 reads>>

\* if save: ax.figure.savefig(str(Path(infile.name).with_suffix('.png')))
SaveFigAlways(flag, path) == WithSuffix(path)

SaveFig(flag, path) == IF flag THEN WithSuffix(path) ELSE None

Save ==
  /\ pc = "save"
  /\ saved' = SaveFig(args.save, args.input)
  /\ pc' = "final"
  /\ UNCHANGED <<argv, args, aos, histo, nev, xsec, prefix, it, ax, exc, stdout, called,
                 reads>>

\* except RuntimeError as e: print(e,end='')
ExceptRuntimeError ==
  /\ pc = "except"
  /\ exc.type = "RuntimeError"
  /\ stdout' = Append(stdout, exc.msg)
  /\ pc' = "final"
  /\ UNCHANGED <<argv, args, aos, histo, nev, xsec, prefix, it, ax, saved, exc, called,
                 reads>>

\* any other exception leaves the try statement and the script: line 87 is
\* not executed
Unhandled ==
  /\ pc = "except"
  /\ exc.type # "RuntimeError"
  /\ pc' = "terminated"
  /\ UNCHANGED <<argv, args, aos, histo, nev, xsec, prefix, it, ax, saved, exc, stdout,
                 called, reads>>

\* print(f'Type Ctrl-D or write exit() to end')
FinalPrint ==
  /\ pc = "final"
  /\ stdout' = Append(stdout, FinalMsg)
  /\ pc' = "done"
  /\ UNCHANGED <<argv, args, aos, histo, nev, xsec, prefix, it, ax, saved, exc, called,
                 reads>>

Next ==
  \/ ParseArgs
  \/ Import
  \/ ReadYODA
  \/ LoopPass
  \/ LoopEnd
  \/ CheckHisto
  \/ Errorbar
  \/ SetTitle
  \/ Show
  \/ Save
  \/ ExceptRuntimeError
  \/ Unhandled
  \/ FinalPrint

Spec == Init /\ [][Next]_vars

----------------------------------------------------------------------------
(* plotit as one function of what readYODA returned and of its parameters:  *)
(* the result of the run of lines 14-57                                     *)

RECURSIVE Scan(_, _, _)
\* the locals the for loop leaves, entered at position i of the list
Scan(a, list, i) ==
  LET p == list[i]
      h == Get(a, HistoKey(p))
      n == Get(a, EvtCountKey(p))
      x == Get(a, XSecKey(p))
  IN IF SelectionTest(h, n, x) \/ i = Len(list)
     THEN [prefix |-> p, histo |-> h, nev |-> n, xsec |-> x]
     ELSE Scan(a, list, i + 1)

Outcome(a, raw, reference, save, infile) ==
  IF a = None
  THEN [prefix |-> "", plot |-> None, title |-> None, error |-> NoAOSError(infile),
        saved |-> None]
  ELSE LET s == Scan(a, PrefixList(raw, reference), 1)
       IN IF s.histo = None
          THEN [prefix |-> s.prefix, plot |-> None, title |-> None,
                error |-> NotFoundError(infile), saved |-> None]
          ELSE IF s.nev = None
          THEN [prefix |-> s.prefix, plot |-> s.histo, title |-> None,
                error |-> NoneValError, saved |-> None]
          ELSE [prefix |-> s.prefix, plot |-> s.histo, title |-> Title(s.nev, s.prefix),
                error |-> None, saved |-> SaveFig(save, infile)]

----------------------------------------------------------------------------
(* The vocabulary of the properties, stated on the file's content *)

\* the target histogram is there under p with more than 0.1 effective entries
HasTarget(a, p) == a[HistoKey(p)] # None /\ a[HistoKey(p)].eff > 1

\* p passes the whole test: the histogram as above, event count and
\* cross-section present
PassesFull(a, p) == HasTarget(a, p) /\ a[EvtCountKey(p)] # None /\ a[XSecKey(p)] # None

\* the first prefix, in the order "", /RAW, /REF, with the histogram ("-": none)
FirstTarget(a) ==
  IF HasTarget(a, "") THEN "" ELSE IF HasTarget(a, "/RAW") THEN "/RAW"
  ELSE IF HasTarget(a, "/REF") THEN "/REF" ELSE "-"

\* the first prefix that passes the whole test ("-": none)
FirstPassing(a) ==
  IF PassesFull(a, "") THEN "" ELSE IF PassesFull(a, "/RAW") THEN "/RAW"
  ELSE IF PassesFull(a, "/REF") THEN "/REF" ELSE "-"

\* readYODA has returned a dictionary
Loaded == reads = 1 /\ aos # None

\* the integer part of v halves
Trunc(v) ==
  CHOOSE c \in -4..4 : IF v >= 0 THEN 2 * c <= v /\ v < 2 * c + 2
                                 ELSE 2 * c - 2 < v /\ v <= 2 * c

ExpectedTitle(v, p) ==
  [type |-> "str",
   text |-> ToString(Trunc(v)) \o " events " \o (IF p = "" THEN "" ELSE "(" \o p \o ")")]

\* the input file of the run
InputOf(a) == IF a.input = None THEN DefaultInput ELSE a.input

\* the positions after the errorbar call, and after set_title
AfterErrorbar == {"title", "show", "save"}
AfterTitle == {"show", "save"}

\* plotit has returned after the plot was drawn and titled
Plotted == pc \in {"final", "done"} /\ ax.title # None

\* the same directory, the same stem, the suffix .png
IsPngOf(out, in) ==
  /\ out # None
  /\ out.parent = in.parent
  /\ Stem(out.name) = Stem(in.name)
  /\ Suffix(out.name) = <<"png">>

NoAOSMsg == <<"No AOS read from ", InputOf(argv)>>
NotFoundMsg == <<"Histogram not found in ", InputOf(argv)>>

\* the message the parser hands to ap.exit
ParserMessage == IF argv.fault = "help" THEN <<>> ELSE <<"error: argument input: can't open">>

----------------------------------------------------------------------------
(* C1, as stated: the histogram drawn is the one of the first prefix under  *)
(* which the histogram exists with more than 0.1 effective entries.         *)
C1_FirstTargetDrawn ==
  (pc = "done" /\ Loaded /\ FirstTarget(aos) # "-")
    => ax.plot = aos[HistoKey(FirstTarget(aos))]

(* C1, amended: when some prefix passes the whole test (histogram with more *)
(* than 0.1 effective entries, event count and cross-section present), the  *)
(* loop stops at the first such prefix in the order "", /RAW, /REF, no      *)
(* error is raised and the histogram drawn is the one of that prefix.       *)
C1_FirstPassingDrawn ==
  (Loaded /\ FirstPassing(aos) # "-")
    => /\ pc \notin {"except", "terminated"}
       /\ ax.plot \in {None, aos[HistoKey(FirstPassing(aos))]}
       /\ pc = "found" => prefix = FirstPassing(aos)
       /\ pc \in AfterErrorbar \cup {"final", "done"}
            => ax.plot = aos[HistoKey(FirstPassing(aos))] /\ prefix = FirstPassing(aos)

C1_Witness ==
  /\ pc = "done"
  /\ Loaded
  /\ HasTarget(aos, "")
  /\ FirstPassing(aos) = "/REF"
  /\ ax.plot = aos[HistoKey("/REF")]

(* C2: when no prefix passes the test, plotit raises the RuntimeError       *)
(* 'Histogram not found in <file>', which the entry point prints; nothing   *)
(* is drawn and no other exception is raised.                               *)
C2_NotFoundReported ==
  (Loaded /\ FirstPassing(aos) = "-")
    => /\ ax.plot = None
       /\ pc # "terminated"
       /\ exc # None => exc = [type |-> "RuntimeError", msg |-> NotFoundMsg]
       /\ pc = "done" => stdout = <<NotFoundMsg, FinalMsg>>

(* C3, as stated: a file that holds the target histogram under the default  *)
(* prefix gets the default prefix selected and the title '<int(nev)>        *)
(* events ' without a parenthesised prefix.                                 *)
C3_DefaultPresentSelected ==
  (pc = "done" /\ Loaded /\ aos[HistoKey("")] # None)
    => /\ prefix = ""
       /\ aos[EvtCountKey("")] # None
       /\ ax.title = ExpectedTitle(aos[EvtCountKey("")].val, "")

(* C3, amended: a file whose default prefix passes the whole test           *)
(* (histogram with more than 0.1 effective entries, event count and         *)
(* cross-section present) gets the default prefix selected and the title    *)
(* '<int(nev)> events ' without a parenthesised prefix.                     *)
C3_DefaultPassingSelected ==
  (Loaded /\ PassesFull(aos, ""))
    => /\ pc \notin {"except", "terminated"}
       /\ pc \in {"found", "errorbar"} \cup AfterErrorbar \cup {"final", "done"}
            => prefix = ""
       /\ pc \in AfterTitle \cup {"final", "done"}
            => ax.title = ExpectedTitle(aos[EvtCountKey("")].val, "")

C3_Witness ==
  /\ pc = "done"
  /\ Loaded
  /\ PassesFull(aos, "")
  /\ PassesFull(aos, "/RAW")
  /\ aos[EvtCountKey("")].val < 0
  /\ ax.title = [type |-> "str", text |-> "-1 events "]

(* C4, as stated: every run with the save flag set writes the PNG beside    *)
(* the input (same directory, same stem, suffix .png).                      *)
C4_SaveAlwaysWrites ==
  (pc = "done" /\ argv.save) => IsPngOf(saved, InputOf(argv))

(* C4, amended: every run with the save flag set in which plotit draws and  *)
(* titles the plot writes the PNG beside the input (same directory, same    *)
(* stem, suffix .png); a run that ends in an error writes none.             *)
C4_SaveWritesWhenPlotted ==
  /\ (Plotted /\ args.save) => IsPngOf(saved, InputOf(argv))
  /\ saved # None => IsPngOf(saved, InputOf(argv))
  /\ (pc \in {"final", "done", "terminated"} /\ ax.title = None) => saved = None

C4_Witness ==
  /\ pc = "done"
  /\ argv.save
  /\ argv.input # None
  /\ argv.input.name = <<"run", "1", "yoda">>
  /\ saved = [type |-> "file", parent |-> "data", name |-> <<"run", "1", "png">>]

(* C5: every run reaches the final print, after printing the error message  *)
(* if there is one; no exception leaves the script before it.               *)
C5_FinalPrintReached ==
  /\ pc # "terminated"
  /\ pc = "done"
       => /\ stdout[Len(stdout)] = FinalMsg
          /\ exc # None => \E i \in 1..Len(stdout) - 1 : stdout[i] = exc.msg

(* C6, as stated: when readYODA returns None plotit raises 'No AOS read     *)
(* from <file>' before any lookup, draws and saves nothing; and 'no data'   *)
(* and 'histogram not found' are the only failures plotit has.              *)
C6_OnlyTwoFailureKinds ==
  /\ (reads = 1 /\ aos = None)
       => /\ exc = [type |-> "RuntimeError", msg |-> NoAOSMsg]
          /\ it = 0
          /\ ax = NoAxes
          /\ saved = None
          /\ pc = "done" => stdout = <<NoAOSMsg, FinalMsg>>
  /\ called = 1
       => /\ exc # None => exc.msg \in {NoAOSMsg, NotFoundMsg}
          /\ \A i \in 1..Len(stdout) : stdout[i] \in {NoAOSMsg, NotFoundMsg, FinalMsg}

(* C6, amended: when readYODA returns None plotit raises 'No AOS read from  *)
(* <file>' before any lookup, draws and saves nothing; 'no data' and        *)
(* 'histogram not found' are the only two RuntimeErrors plotit raises, and  *)
(* the only other message plotit gets printed is the ImportError's, which   *)
(* it prints itself.                                                        *)
C6_NoDataAndRuntimeErrors ==
  /\ (reads = 1 /\ aos = None)
       => /\ exc = [type |-> "RuntimeError", msg |-> NoAOSMsg]
          /\ pc \in {"except", "final", "done"}
          /\ it = 0
          /\ ax = NoAxes
          /\ saved = None
          /\ pc = "done" => stdout = <<NoAOSMsg, FinalMsg>>
  /\ called = 1
       => /\ (exc # None /\ exc.type = "RuntimeError") => exc.msg \in {NoAOSMsg, NotFoundMsg}
          /\ \A i \in 1..Len(stdout) :
               stdout[i] \in {NoAOSMsg, NotFoundMsg, ImportErrorMsg, FinalMsg}

C6_Witness ==
  /\ pc = "done"
  /\ reads = 1
  /\ aos = None
  /\ args.save
  /\ saved = None
  /\ stdout = <<NoAOSMsg, FinalMsg>>

\* the order of the steps, as far as every run keeps it
StepOrder ==
  /\ called <= 1
  /\ reads <= 1
  /\ called = 1 => args # None
  /\ reads = 1 => called = 1
  /\ it > 0 => Loaded
  /\ ax.plot # None => Loaded /\ it > 0 /\ histo # None /\ ax.plot = histo
  /\ ax.title # None => ax.plot # None
  /\ saved # None
       => /\ ax.plot # None
          /\ ax.title # None
          /\ ax.shown
          /\ args.save
          /\ exc = None
          /\ \A i \in 1..Len(stdout) : stdout[i] = FinalMsg

(* C7, as stated: parse, load, search, plot, save happen in this order,     *)
(* each at most once; the input is read exactly once; the plot is drawn     *)
(* only after a load and a lookup that did not fail; savefig only after     *)
(* the plot is drawn and titled, never after an error or with save unset.   *)
C7_ReadExactlyOnce ==
  /\ StepOrder
  /\ pc = "done" => reads = 1

(* C7, amended: the same order, each step at most once; the input is read   *)
(* at most once, and exactly once in every run in which argument parsing    *)
(* and plotit's imports succeed.                                            *)
C7_ReadAtMostOnce ==
  /\ StepOrder
  /\ pc \in {"loop", "found", "errorbar", "title", "show", "save"} => reads = 1
  /\ (pc \in {"done", "terminated"} /\ args # None
      /\ \A i \in 1..Len(stdout) : stdout[i] # ImportErrorMsg) => reads = 1

C7_Witness ==
  /\ pc = "done"
  /\ reads = 1
  /\ saved # None
  /\ prefix = "/RAW"

(* C8: a call of the parser's exit never ends the process: it becomes a     *)
(* RuntimeError with the parser's message, the entry point prints the       *)
(* message, plotit is not called and the final print is reached.            *)
C8_ParserExitIsPrinted ==
  (argv.fault # "none" /\ pc # "parse")
    => /\ exc = [type |-> "RuntimeError", msg |-> ParserMessage]
       /\ pc \in {"except", "final", "done"}
       /\ called = 0
       /\ pc \in {"final", "done"} => stdout[1] = ParserMessage
       /\ pc = "done" => stdout = <<ParserMessage, FinalMsg>>

C8_Witness ==
  /\ pc = "done"
  /\ argv.fault = "unreadable"
  /\ called = 0
  /\ stdout = <<ParserMessage, FinalMsg>>

C10_DrawnFromPassingPrefix ==
  ax.plot # None
    => /\ ax.plot = aos[HistoKey(prefix)]
       /\ PassesFull(aos, prefix)
       /\ ax.title # None => ax.title = ExpectedTitle(aos[EvtCountKey(prefix)].val, prefix)

====
